---- MODULE Spec2Model ----
(***************************************************************************)
(* Model of app.py, the OpenAQ air-quality dashboard: the retrying fetcher *)
(* _get, the three cached endpoint wrappers (list_locations,               *)
(* sensors_by_location, fetch_days) and one run of main, from the date     *)
(* controls to the KPIs.  Frames (pandas DataFrames) are sequences of      *)
(* rows; floating-point means are exact rationals <<num, den>>.            *)
(***************************************************************************)
EXTENDS Integers, Sequences, FiniteSets, TLC

(* ------------------------------ bounds -------------------------------- *)
\* the upstream reports days 1..MaxDate; the date pickers offer the same days
MaxDate == 2
\* records in one /days response
MaxRecs == 2
\* sensors in one /locations/{id}/sensors response
MaxSensors == 2
\* locations in one /locations response
MaxStations == 2
\* the retries argument of a direct call of _get ranges over 0..MaxRetries
MaxRetries == 4

(* ------------------------- program constants -------------------------- *)
\* _get(url, params=None, timeout=30, retries=3)
DefaultRetries == 3
\* time.sleep(1.2), in tenths of a second
Backoff == 12
\* df_final.tail(7), df_final.tail(30)
Window7 == 7
Window30 == 30

\* PARAMETERS: name -> id (the order of the list in the source)
PARAMETERS ==
    << [name |-> "pm25", id |-> 2], [name |-> "pm10", id |-> 1],
       [name |-> "o3", id |-> 10],  [name |-> "no2", id |-> 7],
       [name |-> "so2", id |-> 9],  [name |-> "co", id |-> 8] >>

(* ------------------------- input universes ---------------------------- *)
Dates == 1..MaxDate
\* measured values the upstream may report
Values == {5, 15}
\* the parameters offered by the selectbox that the model explores
UiNames == {"pm25", "pm10"}
\* the parameter ids the upstream attaches to a sensor
SensorParamIds == {2, 1}
\* what an attempt can fail with: raise_for_status (status >= 400) or transport
\* ("except Exception" treats every exception of the try block alike)
Causes == {"HTTPError", "ConnectionError"}

None == "None"
\* NaN of a float column
NaN == <<0, 0>>

VARIABLES
    API_KEY,     \* TRUE iff the configured key is a non-empty string
    pc,          \* position of the run
    msg,         \* the st.error / st.warning message shown before st.stop()
    exc,         \* the uncaught exception that ended the run, or None
    pname,       \* selectbox choice
    fecha_ini,   \* "Desde"
    fecha_fin,   \* "Hasta"
    g,           \* the frame of the running _get call and the requests it sent
    data,        \* the payload _get returned, while its caller's frame is alive
    netUsed,     \* TRUE once requests.get was called in this run
    called,      \* the fetching functions entered so far in this run
    df_loc,      \* rows of list_locations (location ids)
    sel,         \* multiselect result: labels in selection order
    idx,         \* index in sel of the station being processed
    df_sens,     \* sensor ids of the station still to be fetched
    dfd,         \* the frame fetch_days returned last
    series_loc,  \* frames of the sensors of the current station
    merged,      \* the series of the current station
    all_series,  \* the series of the stations processed so far
    df_final,    \* the merged wide frame
    kpi          \* [ultimo, prom_7, prom_30]

vars == << API_KEY, pc, msg, exc, pname, fecha_ini, fecha_fin, g, data, netUsed,
           called, df_loc, sel, idx, df_sens, dfd, series_loc, merged,
           all_series, df_final, kpi >>

mainVars == << pname, fecha_ini, fecha_fin, df_loc, sel, idx, df_sens, dfd,
               series_loc, merged, all_series, df_final, kpi >>

(* --------------------------- rationals -------------------------------- *)
RECURSIVE Gcd(_, _)
Gcd(a, b) == IF b = 0 THEN a ELSE Gcd(b, a % b)

\* a float is the exact rational <<n, d>>, d > 0, in lowest terms; NaN is <<0, 0>>
Norm(q) ==
    IF q[2] = 0 THEN NaN
    ELSE LET k == Gcd(IF q[1] < 0 THEN -q[1] ELSE q[1], q[2])
         IN  << q[1] \div k, q[2] \div k >>

Rat(n) == << n, 1 >>
IsNaN(q) == q[2] = 0
RAdd(a, b) == Norm(<< a[1] * b[2] + b[1] * a[2], a[2] * b[2] >>)

RECURSIVE RSum(_)
RSum(qs) == IF qs = << >> THEN Rat(0) ELSE RAdd(Head(qs), RSum(Tail(qs)))

\* Series.mean() / DataFrame.mean(axis=1): skipna=True, NaN when nothing is left
SkipNaMean(qs) ==
    LET kept == SelectSeq(qs, LAMBDA q : ~IsNaN(q))
        s    == RSum(kept)
    IN  IF kept = << >> THEN NaN ELSE Norm(<< s[1], s[2] * Len(kept) >>)

(* ----------------------- upstream responses --------------------------- *)
\* one element of "results" of GET /locations
LocRecs(i) == { [has_id |-> h, id |-> i] : h \in BOOLEAN }
LocationPayloads ==
    UNION { { p \in [1..n -> UNION { LocRecs(i) : i \in 1..MaxStations }] :
                \A i \in 1..n : p[i].id = i } : n \in 0..MaxStations }

\* one element of "results" of GET /locations/{id}/sensors
\* (sensor ids are unique across locations)
SensorPayloads(loc) ==
    LET base == (loc - 1) * MaxSensors
    IN  UNION { { p \in [1..n -> [id : (base + 1)..(base + MaxSensors),
                                  parameter : SensorParamIds]] :
                    \A i \in 1..n : p[i].id = base + i } : n \in 0..MaxSensors }

\* one element of "results" of GET /sensors/{id}/days: period.datetimeFrom.utc
\* and value, either of which the record may lack
DayRecs ==
    { [has_utc |-> TRUE, utc |-> << d, "Z" >>, has_value |-> TRUE, value |-> v] :
        d \in Dates, v \in Values }
    \cup { [has_utc |-> FALSE, utc |-> << 1, "Z" >>, has_value |-> TRUE, value |-> 5],
           [has_utc |-> TRUE, utc |-> << 1, "Z" >>, has_value |-> FALSE, value |-> 5] }
DayPayloads == UNION { [1..n -> DayRecs] : n \in 0..MaxRecs }

PayloadsFor(fn, arg) ==
    CASE fn = "list_locations" -> LocationPayloads
      [] fn = "sensors_by_location" -> SensorPayloads(arg)
      [] fn = "fetch_days" -> DayPayloads

Fns == {"list_locations", "sensors_by_location", "fetch_days"}

(* ------------------------------ _get ---------------------------------- *)
NoExc == [type |-> None, at |-> None, cause |-> None]
\* sent: the outcome of every requests.get of the call; slept: time.sleep in total
GIdle == [state |-> "idle", fn |-> None, arg |-> 0, retries |-> 0, i |-> 0,
          last |-> None, sent |-> << >>, slept |-> 0]

\* need_key(): "if not API_KEY: st.error(...); st.stop()"
NeedKeyNever == FALSE
need_key_stops == ~API_KEY

\* "for _ in range(retries)": another iteration is left
LoopOffByOne(f) == f.i <= f.retries
LoopHasNext(f) == f.i < f.retries

\* entry of _get: need_key(), last = None, then the loop
GetEnter(fn, arg, retries, at) ==
    /\ g.state = "idle"
    /\ called' = called \cup {fn}
    /\ IF need_key_stops
       THEN /\ pc' = "stopped"
            /\ msg' = "need_key"
            /\ g' = g
       ELSE /\ g' = [state |-> "loop", fn |-> fn, arg |-> arg, retries |-> retries,
                     i |-> 0, last |-> None, sent |-> << >>, slept |-> 0]
            /\ pc' = at
            /\ msg' = msg
    /\ UNCHANGED << API_KEY, exc, data, netUsed, mainVars >>

\* an attempt that raises (requests.get or raise_for_status): last = e, sleep
GetFail ==
    /\ g.state = "loop"
    /\ LoopHasNext(g)
    /\ \E c \in Causes :
          g' = [g EXCEPT !.i = @ + 1, !.sent = Append(@, c), !.last = c,
                         !.slept = @ + Backoff]
    /\ netUsed' = TRUE
    /\ UNCHANGED << API_KEY, pc, msg, exc, data, called, mainVars >>

\* an attempt that succeeds with payload p: return r.json()
GetReturns(p) ==
    /\ g.state = "loop"
    /\ LoopHasNext(g)
    /\ p \in PayloadsFor(g.fn, g.arg)
    /\ netUsed' = TRUE

\* _get returns to a direct caller, which keeps the payload
GetOk ==
    /\ pc = "call"
    /\ g.state = "loop"
    /\ \E p \in PayloadsFor(g.fn, g.arg) : GetReturns(p) /\ data' = p
    /\ g' = [g EXCEPT !.i = @ + 1, !.sent = Append(@, "ok"), !.state = "returned"]
    /\ UNCHANGED << API_KEY, pc, msg, exc, called, mainVars >>

\* the loop is over: raise RuntimeError(f"Falla GET {url}: {last}"), which no
\* caller catches
GetRaise ==
    /\ g.state = "loop"
    /\ ~LoopHasNext(g)
    /\ g' = [g EXCEPT !.state = "raised"]
    /\ exc' = [type |-> "RuntimeError", at |-> "_get", cause |-> g.last]
    /\ pc' = "raised"
    /\ UNCHANGED << API_KEY, msg, data, netUsed, called, mainVars >>

(* ------------------------- frame operations --------------------------- *)
Remove(s, i) == SubSeq(s, 1, i - 1) \o SubSeq(s, i + 1, Len(s))
SeqRange(s) == { s[i] : i \in DOMAIN s }
Front(s) == SubSeq(s, 1, Len(s) - 1)

RECURSIVE Flatten(_)
Flatten(ss) == IF ss = << >> THEN << >> ELSE Head(ss) \o Flatten(Tail(ss))

RECURSIVE SortedSeq(_)
SortedSeq(S) ==
    IF S = {} THEN << >>
    ELSE LET m == CHOOSE x \in S : \A y \in S : x <= y
         IN  << m >> \o SortedSeq(S \ {m})

\* DataFrame.sort_values("Fecha"): the default kind, quicksort, is not stable, so
\* rows of equal Fecha come out in any order
RECURSIVE SortValues(_)
SortValues(rows) ==
    IF rows = << >> THEN { << >> }
    ELSE LET m == CHOOSE d \in { rows[i].Fecha : i \in DOMAIN rows } :
                      \A i \in DOMAIN rows : d <= rows[i].Fecha
             firsts == { i \in DOMAIN rows : rows[i].Fecha = m }
         IN  UNION { { << rows[i] >> \o t : t \in SortValues(Remove(rows, i)) } :
                     i \in firsts }

EmptyFrame == [cols |-> << >>, rows |-> << >>]

(* ----------------------------- fetch_days ----------------------------- *)
\* pd.to_datetime(d["date_utc"]).dt.tz_convert(None): the UTC instant, zone dropped
ToDatetime(u) == u[1]

\* r["period"]["datetimeFrom"]["utc"] and r["value"] are plain subscripts
DayRecordOk(r) == r.has_utc /\ r.has_value
FetchDaysRaises(p) == \E i \in DOMAIN p : ~DayRecordOk(p[i])

\* rows.append({"date_utc": dt, "value": r["value"]}) for every record
FetchDaysRows(p) ==
    [i \in DOMAIN p |-> [Fecha |-> ToDatetime(p[i].utc), value |-> p[i].value]]

\* the frames fetch_days may return for payload p (none is dropped, then sorted)
FetchDaysFrames(p) == SortValues(FetchDaysRows(p))

(* ---------------------------- list_locations -------------------------- *)
\* "location_id": loc["id"] is a plain subscript
ListLocationsRaises(p) == \E i \in DOMAIN p : ~p[i].has_id
ListLocationsRows(p) == [i \in DOMAIN p |-> p[i].id]

\* f"{r['name']} ... (id {r['location_id']})" and
\* int(etiqueta.split("id")[-1].strip(") ").strip())
Etiqueta(loc) == << "id", loc >>
LocIdOf(etq) == etq[2]

\* pinfo = next(p for p in PARAMETERS if p["name"] == pname); pinfo["id"]
ParamId(name) ==
    PARAMETERS[CHOOSE k \in DOMAIN PARAMETERS : PARAMETERS[k].name = name].id

\* df_sens[df_sens["parameter"].apply(lambda x: x.get("id") == pinfo["id"])]
FilterSensors(p, pid) ==
    LET kept == SelectSeq(p, LAMBDA x : x.parameter = pid)
    IN  [i \in DOMAIN kept |-> kept[i].id]

(* ------------- pd.concat(series_loc, axis=1).mean(axis=1) ------------- *)
Index(f) == [i \in DOMAIN f.rows |-> f.rows[i].Fecha]
HasDup(ix) == \E i, j \in DOMAIN ix : i < j /\ ix[i] = ix[j]
AllEqualIndex(fs) == \A k \in DOMAIN fs : Index(fs[k]) = Index(fs[1])

\* aligning frames of different indexes reindexes them, which pandas refuses
\* for an index with repeated labels (InvalidIndexError)
ConcatRaises(fs) == ~AllEqualIndex(fs) /\ \E k \in DOMAIN fs : HasDup(Index(fs[k]))

\* the union of the indexes, sort=False: labels in order of first appearance
RECURSIVE UnionIndex(_)
UnionIndex(fs) ==
    IF fs = << >> THEN << >>
    ELSE LET rest == UnionIndex(Front(fs))
         IN  rest \o SelectSeq(Index(fs[Len(fs)]), LAMBDA d : d \notin SeqRange(rest))

\* the cell of sensor frame f at label d of a unique index, NaN when f lacks d
ValueAt(f, d) ==
    IF \E i \in DOMAIN f.rows : f.rows[i].Fecha = d
    THEN Rat(f.rows[CHOOSE i \in DOMAIN f.rows : f.rows[i].Fecha = d].value)
    ELSE NaN

\* a mean that counts a missing cell as zero
ZeroFillMean(qs) ==
    LET s == RSum([k \in DOMAIN qs |-> IF IsNaN(qs[k]) THEN Rat(0) ELSE qs[k]])
    IN  IF qs = << >> THEN NaN ELSE Norm(<< s[1], s[2] * Len(qs) >>)
\* .mean(axis=1) of one row of the concatenated frame
RowMean(qs) == SkipNaMean(qs)

\* rows (Fecha, mean) of the station frame
ConcatMean(fs) ==
    IF AllEqualIndex(fs)
    THEN [i \in DOMAIN fs[1].rows |->
            [Fecha |-> fs[1].rows[i].Fecha,
             value |-> RowMean([k \in DOMAIN fs |-> Rat(fs[k].rows[i].value)])]]
    ELSE LET ix == UnionIndex(fs)
         IN  [i \in DOMAIN ix |->
                [Fecha |-> ix[i],
                 value |-> RowMean([k \in DOMAIN fs |-> ValueAt(fs[k], ix[i])])]]

\* .to_frame(name=etiqueta); reset_index: columns Fecha, etiqueta
ToFrame(etq, rows) ==
    [cols |-> << etq >>,
     rows |-> [i \in DOMAIN rows |->
                 [Fecha |-> rows[i].Fecha, vals |-> (etq :> rows[i].value)]]]

(* -------------- df_final.merge(extra, on="Fecha", how=...) ------------ *)
KeysOf(f) == { f.rows[i].Fecha : i \in DOMAIN f.rows }
NaNs(cols) == [c \in SeqRange(cols) |-> NaN]
RowsAt(f, d) == SelectSeq(f.rows, LAMBDA r : r.Fecha = d)

\* the rows of the join for key d: every left row with every right row of the
\* key, or the rows of the one side with NaN in the other side's columns
JoinAt(l, r, d) ==
    LET lr == RowsAt(l, d)
        rr == RowsAt(r, d)
    IN  IF rr = << >>
        THEN [i \in DOMAIN lr |-> [Fecha |-> d, vals |-> lr[i].vals @@ NaNs(r.cols)]]
        ELSE IF lr = << >>
        THEN [j \in DOMAIN rr |-> [Fecha |-> d, vals |-> NaNs(l.cols) @@ rr[j].vals]]
        ELSE [k \in 1..(Len(lr) * Len(rr)) |->
                [Fecha |-> d,
                 vals |-> lr[((k - 1) \div Len(rr)) + 1].vals
                          @@ rr[((k - 1) % Len(rr)) + 1].vals]]

MergeOn(l, r, keys) ==
    LET ks == SortedSeq(keys)
    IN  [cols |-> l.cols \o r.cols,
         rows |-> Flatten([k \in DOMAIN ks |-> JoinAt(l, r, ks[k])])]

\* how="left": only the keys of the left frame
MergeLeft(l, r) == MergeOn(l, r, KeysOf(l))
\* how="outer": the keys of both frames
MergeOuter(l, r) == MergeOn(l, r, KeysOf(l) \cup KeysOf(r))

\* df_final = all_series[0]; for extra in all_series[1:]: df_final = merge(...)
RECURSIVE FoldMerge(_)
FoldMerge(fs) ==
    IF Len(fs) = 1 THEN fs[1] ELSE MergeOuter(FoldMerge(Front(fs)), fs[Len(fs)])

\* the frames line 149 may leave in df_final
FinalFrames(fs) ==
    LET m == FoldMerge(fs) IN { [cols |-> m.cols, rows |-> t] : t \in SortValues(m.rows) }

(* -------------------------------- KPIs -------------------------------- *)
Complete(row, cols) == \A c \in SeqRange(cols) : ~IsNaN(row.vals[c])
\* DataFrame.dropna(): rows with any missing cell are removed
DropNa(f) == [f EXCEPT !.rows = SelectSeq(f.rows, LAMBDA r : Complete(r, f.cols))]
\* DataFrame.tail(n)
TailN(f, n) ==
    [f EXCEPT !.rows = SubSeq(f.rows, IF Len(f.rows) > n THEN Len(f.rows) - n + 1 ELSE 1,
                              Len(f.rows))]

\* df_final.dropna().iloc[-1, 1:].mean(): iloc[-1] of an empty frame raises
UltimoRaises(f) == DropNa(f).rows = << >>
Ultimo(f) ==
    LET rs == DropNa(f).rows
        r  == rs[Len(rs)]
    IN  SkipNaMean([k \in DOMAIN f.cols |-> r.vals[f.cols[k]]])

\* .iloc[:, 1:].mean(): one mean per station column
ColMeans(f) ==
    [k \in DOMAIN f.cols |->
        SkipNaMean([i \in DOMAIN f.rows |-> f.rows[i].vals[f.cols[k]]])]
\* df_final.tail(n).dropna().iloc[:, 1:].mean().mean()
Prom(f, n) == SkipNaMean(ColMeans(DropNa(TailN(f, n))))

(* ------------------- a direct call of _get ---------------------------- *)
InitCommon ==
    /\ API_KEY \in BOOLEAN
    /\ msg = None
    /\ exc = NoExc
    /\ pname = "pm25"
    /\ fecha_ini = 1
    /\ fecha_fin = 1
    /\ g = GIdle
    /\ data = << >>
    /\ netUsed = FALSE
    /\ called = {}
    /\ df_loc = << >>
    /\ sel = << >>
    /\ idx = 0
    /\ df_sens = << >>
    /\ dfd = << >>
    /\ series_loc = << >>
    /\ merged = EmptyFrame
    /\ all_series = << >>
    /\ df_final = EmptyFrame
    /\ kpi = [ultimo |-> NaN, prom_7 |-> NaN, prom_30 |-> NaN]

GetInit == InitCommon /\ pc = "call"

\* _get(url, params, timeout, retries) called with any retry count
GetCall ==
    /\ pc = "call"
    /\ \E fn \in Fns, r \in 0..MaxRetries : GetEnter(fn, 1, r, "call")

GetNext == GetCall \/ GetFail \/ GetOk \/ GetRaise

GetSpec == GetInit /\ [][GetNext]_vars

(* ------------------------------- main --------------------------------- *)
\* "if fecha_ini > fecha_fin: st.error(...); st.stop()"
DateCheckMissing(ini, fin) == FALSE
DateInvalid(ini, fin) == ini > fin

\* the labels a user can return from the multiselect: distinct options, in the
\* order they were picked
Selections(opts) ==
    { q \in UNION { [1..n -> SeqRange(opts)] : n \in 0..Len(opts) } :
        \A i, j \in DOMAIN q : i # j => q[i] # q[j] }

\* lines 92-100: the selectbox, the two date inputs and the range check
Controls ==
    /\ pc = "controls"
    /\ \E pn \in UiNames, ini \in Dates, fin \in Dates :
          /\ pname' = pn
          /\ fecha_ini' = ini
          /\ fecha_fin' = fin
          /\ IF DateInvalid(ini, fin)
             THEN pc' = "stopped" /\ msg' = "date_error"
             ELSE pc' = "locations" /\ msg' = msg
    /\ UNCHANGED << API_KEY, exc, g, data, netUsed, called, df_loc, sel, idx,
                    df_sens, dfd, series_loc, merged, all_series, df_final, kpi >>

\* line 106: list_locations("CL", pinfo["id"]) reaches _get
CallListLocations ==
    /\ pc = "locations"
    /\ GetEnter("list_locations", 0, DefaultRetries, "list_locations")

\* lines 47-62 and 107-113: the rows of the listing, then the empty check
ListLocationsReturn ==
    /\ pc = "list_locations"
    /\ g.state = "loop"
    /\ g' = GIdle
    /\ \E p \in PayloadsFor(g.fn, g.arg) :
        /\ GetReturns(p)
        /\ IF ListLocationsRaises(p)
           THEN /\ exc' = [type |-> "KeyError", at |-> "list_locations", cause |-> "id"]
                /\ pc' = "raised"
                /\ data' = p
                /\ UNCHANGED << msg, df_loc >>
           ELSE /\ df_loc' = ListLocationsRows(p)
                /\ exc' = exc
                /\ data' = << >>
                /\ IF df_loc' = << >>
                   THEN pc' = "stopped" /\ msg' = "no_stations"
                   ELSE pc' = "select" /\ msg' = msg
    /\ UNCHANGED << API_KEY, called, pname, fecha_ini, fecha_fin,
                    sel, idx, df_sens, dfd, series_loc, merged, all_series,
                    df_final, kpi >>

\* lines 114-122: the multiselect, the empty check, all_series = []
Select ==
    /\ pc = "select"
    /\ \E q \in Selections([i \in DOMAIN df_loc |-> Etiqueta(df_loc[i])]) :
          /\ sel' = q
          /\ IF q = << >>
             THEN pc' = "stopped" /\ msg' = "no_selection" /\ idx' = idx
             ELSE pc' = "station" /\ msg' = msg /\ idx' = 1
    /\ all_series' = << >>
    /\ UNCHANGED << API_KEY, exc, g, data, netUsed, called, pname, fecha_ini,
                    fecha_fin, df_loc, df_sens, dfd, series_loc, merged,
                    df_final, kpi >>

\* lines 124-126: the next label of sel, sensors_by_location(loc_id) reaches _get
\* (series_loc and dfd of the station before are dead: nothing reads them again
\* before lines 129 and 132 rebind them, and the model forgets them here)
CallSensors ==
    /\ pc = "station"
    /\ idx <= Len(sel)
    /\ g.state = "idle"
    /\ called' = called \cup {"sensors_by_location"}
    /\ series_loc' = << >>
    /\ dfd' = << >>
    /\ IF need_key_stops
       THEN pc' = "stopped" /\ msg' = "need_key" /\ g' = g
       ELSE /\ g' = [GIdle EXCEPT !.state = "loop", !.fn = "sensors_by_location",
                                  !.arg = LocIdOf(sel[idx]),
                                  !.retries = DefaultRetries]
            /\ pc' = "sensors_by_location"
            /\ msg' = msg
    /\ UNCHANGED << API_KEY, exc, data, netUsed, pname, fecha_ini, fecha_fin,
                    df_loc, sel, idx, df_sens, merged, all_series, df_final, kpi >>

\* lines 68 and 127-129: the frame of the listing, the parameter filter (a frame
\* built from no record has no "parameter" column), series_loc = []
SensorsReturn ==
    /\ pc = "sensors_by_location"
    /\ g.state = "loop"
    /\ g' = GIdle
    /\ \E p \in PayloadsFor(g.fn, g.arg) :
        /\ GetReturns(p)
        /\ data' = << >>
        /\ IF p = << >>
           THEN /\ exc' = [type |-> "KeyError", at |-> "main", cause |-> "parameter"]
                /\ pc' = "raised"
                /\ UNCHANGED << df_sens, series_loc >>
           ELSE /\ df_sens' = FilterSensors(p, ParamId(pname))
                /\ series_loc' = << >>
                /\ pc' = "sensors"
                /\ exc' = exc
    /\ UNCHANGED << API_KEY, msg, called, pname, fecha_ini,
                    fecha_fin, df_loc, sel, idx, dfd, merged, all_series,
                    df_final, kpi >>

\* lines 130-132: the next sensor row, fetch_days(sid, ...) reaches _get
CallFetchDays ==
    /\ pc = "sensors"
    /\ df_sens # << >>
    /\ GetEnter("fetch_days", Head(df_sens), DefaultRetries, "fetch_days")

\* lines 75-83 and 133-135: the rows of the response, sorted, appended to
\* series_loc unless empty
FetchDaysReturn ==
    /\ pc = "fetch_days"
    /\ g.state = "loop"
    /\ g' = GIdle
    /\ \E p \in PayloadsFor(g.fn, g.arg) :
        /\ GetReturns(p)
        /\ IF FetchDaysRaises(p)
           THEN /\ exc' = [type |-> "KeyError", at |-> "fetch_days", cause |-> "record"]
                /\ pc' = "raised"
                /\ data' = p
                /\ UNCHANGED << dfd, series_loc, df_sens >>
           ELSE /\ \E d \in FetchDaysFrames(p) :
                      /\ dfd' = d
                      /\ series_loc' =
                            IF d = << >> THEN series_loc
                            ELSE Append(series_loc, [sid |-> Head(df_sens), rows |-> d])
                /\ df_sens' = Tail(df_sens)
                /\ pc' = "sensors"
                /\ exc' = exc
                /\ data' = << >>
    /\ UNCHANGED << API_KEY, msg, called, pname, fecha_ini,
                    fecha_fin, df_loc, sel, idx, merged, all_series, df_final, kpi >>

\* lines 137-140: the station's series, the mean over its sensors' columns
StationSeries ==
    /\ pc = "sensors"
    /\ df_sens = << >>
    /\ IF series_loc = << >>
       THEN /\ pc' = "station"
            /\ idx' = idx + 1
            /\ UNCHANGED << exc, merged, all_series >>
       ELSE IF ConcatRaises(series_loc)
       THEN /\ exc' = [type |-> "InvalidIndexError", at |-> "main", cause |-> "concat"]
            /\ pc' = "raised"
            /\ UNCHANGED << idx, merged, all_series >>
       ELSE /\ merged' = ToFrame(sel[idx], ConcatMean(series_loc))
            /\ all_series' = Append(all_series, merged')
            /\ pc' = "station"
            /\ idx' = idx + 1
            /\ exc' = exc
    /\ UNCHANGED << API_KEY, msg, g, data, netUsed, called, pname, fecha_ini,
                    fecha_fin, df_loc, sel, df_sens, dfd, series_loc, df_final, kpi >>

\* lines 142-149: the empty check, the fold of outer merges, the sort (the dead
\* series_loc and dfd are forgotten)
Merge ==
    /\ pc = "station"
    /\ idx > Len(sel)
    /\ IF all_series = << >>
       THEN pc' = "stopped" /\ msg' = "no_data" /\ df_final' = df_final
       ELSE pc' = "kpis" /\ msg' = msg /\ df_final' \in FinalFrames(all_series)
    /\ series_loc' = << >>
    /\ dfd' = << >>
    /\ UNCHANGED << API_KEY, exc, g, data, netUsed, called, pname, fecha_ini,
                    fecha_fin, df_loc, sel, idx, df_sens, merged, all_series, kpi >>

\* lines 153-180: the three KPIs; the chart, the table and the download follow
Kpis ==
    /\ pc = "kpis"
    /\ IF UltimoRaises(df_final)
       THEN /\ exc' = [type |-> "IndexError", at |-> "main", cause |-> "iloc"]
            /\ pc' = "raised"
            /\ kpi' = kpi
       ELSE /\ kpi' = [ultimo |-> Ultimo(df_final),
                       prom_7 |-> Prom(df_final, Window7),
                       prom_30 |-> Prom(df_final, Window30)]
            /\ pc' = "done"
            /\ exc' = exc
    /\ UNCHANGED << API_KEY, msg, g, data, netUsed, called, pname, fecha_ini,
                    fecha_fin, df_loc, sel, idx, df_sens, dfd, series_loc, merged,
                    all_series, df_final >>

\* one run of the script from a cold cache (st.cache_data holds nothing yet)
Init == InitCommon /\ pc = "controls"

Next ==
    \/ Controls
    \/ CallListLocations
    \/ ListLocationsReturn
    \/ Select
    \/ CallSensors
    \/ SensorsReturn
    \/ CallFetchDays
    \/ FetchDaysReturn
    \/ StationSeries
    \/ Merge
    \/ Kpis
    \/ GetFail
    \/ GetRaise

Spec == Init /\ [][Next]_vars

(* ------------------------------ claims -------------------------------- *)
Failures(sent) == SelectSeq(sent, LAMBDA o : o \in Causes)

\* C1: with a key present, a call of _get(url, params, timeout, retries) sends at
\* most `retries` requests; a request is sent again only after a failed one, and
\* every failed one is followed by one backoff delay; the call fails only when
\* `retries` requests have all failed, with a RuntimeError that carries the cause
\* of the last failed request; a call that returns does so on its last request
\* and hands back that request's payload.
C1_RetryBound ==
    API_KEY =>
        /\ Len(g.sent) <= g.retries
        /\ g.slept = Backoff * Len(Failures(g.sent))
        /\ \A k \in 1..(Len(g.sent) - 1) : g.sent[k] \in Causes
        /\ g.state = "raised" =>
              /\ Len(g.sent) = g.retries
              /\ Len(Failures(g.sent)) = g.retries
              /\ exc.type = "RuntimeError"
              /\ exc.cause = IF g.retries = 0 THEN None ELSE g.sent[Len(g.sent)]
        /\ exc.type = "RuntimeError" => g.state = "raised"
        /\ g.state = "returned" =>
              /\ g.sent[Len(g.sent)] = "ok"
              /\ data \in PayloadsFor(g.fn, g.arg)
              /\ exc = NoExc

\* a call that failed after three requests whose causes differ
C1_Witness ==
    /\ API_KEY
    /\ g.state = "raised"
    /\ g.retries = 3
    /\ g.sent = << "HTTPError", "HTTPError", "ConnectionError" >>
    /\ exc.cause = "ConnectionError"
    /\ g.slept = 3 * Backoff

\* C2: with an empty API key, a call of list_locations, sensors_by_location or
\* fetch_days (each reaches _get first) stops at need_key: no request is sent, no
\* backoff delay is taken and the retry loop is never entered.
C2_NoKeyNoRequest ==
    ~API_KEY =>
        /\ ~netUsed
        /\ g.state = "idle"
        /\ g.sent = << >>
        /\ g.slept = 0
        /\ called # {} => pc = "stopped" /\ msg = "need_key"
        /\ exc = NoExc

\* fetch_days was called without a key and the run stopped at need_key
C2_Witness ==
    /\ ~API_KEY
    /\ called = {"fetch_days"}
    /\ pc = "stopped"
    /\ msg = "need_key"

\* C3: a run of main whose start date is after its end date stops with the date
\* error before any fetching function is called and before any request is sent;
\* every fetch happens in a run with start date <= end date.
C3_ValidationFirst ==
    /\ (pc # "controls" /\ fecha_ini > fecha_fin) =>
          /\ pc = "stopped"
          /\ msg = "date_error"
          /\ called = {}
          /\ ~netUsed
          /\ g.state = "idle"
    /\ (called # {} \/ netUsed \/ g.state # "idle") => fecha_ini <= fecha_fin

\* the run stopped on the date error, nothing fetched
C3_Witness ==
    /\ fecha_ini > fecha_fin
    /\ pc = "stopped"
    /\ msg = "date_error"
    /\ called = {}

ValuesAt(f, d) == { f.rows[i].value : i \in { j \in DOMAIN f.rows : f.rows[j].Fecha = d } }
Reporting(fs, d) == { k \in DOMAIN fs : ValuesAt(fs[k], d) # {} }

RECURSIVE SumOver(_, _)
SumOver(pick, R) ==
    IF R = {} THEN 0
    ELSE LET k == CHOOSE x \in R : TRUE IN pick[k] + SumOver(pick, R \ {k})

\* the means over the sensors that reported date d, one reported value of each
MeansOfReporting(fs, d) ==
    LET R == Reporting(fs, d)
    IN  { Norm(<< SumOver(pick, R), Cardinality(R) >>) :
            pick \in { q \in [R -> Values] : \A k \in R : q[k] \in ValuesAt(fs[k], d) } }

\* C4: the series main builds for a station holds a date exactly when some sensor
\* of the selected parameter reported a value for it, and the station's value on
\* a date is the arithmetic mean of the values of exactly the sensors that
\* reported that date (sensors without a value for the date are left out, not
\* counted as zero); a date every reporting sensor reported once has one row.
C4_SiblingMean ==
    (pc = "station" /\ series_loc # << >>) =>
        LET etq == sel[idx - 1]
        IN  /\ merged.cols = << etq >>
            /\ all_series[Len(all_series)] = merged
            /\ KeysOf(merged) = UNION { KeysOf(series_loc[k]) : k \in DOMAIN series_loc }
            /\ \A i \in DOMAIN merged.rows :
                  merged.rows[i].vals[etq]
                      \in MeansOfReporting(series_loc, merged.rows[i].Fecha)
            /\ \A d \in KeysOf(merged) :
                  (\A k \in DOMAIN series_loc : Len(RowsAt(series_loc[k], d)) <= 1)
                      => Len(RowsAt(merged, d)) = 1

\* sensor A gave 5 and sensor B gave 15 on day 1, and only A reported day 2
C4_Witness ==
    /\ pc = "station"
    /\ Len(series_loc) = 2
    /\ series_loc[1].rows = << [Fecha |-> 1, value |-> 5], [Fecha |-> 2, value |-> 15] >>
    /\ series_loc[2].rows = << [Fecha |-> 1, value |-> 15] >>
    /\ merged.rows = << [Fecha |-> 1, vals |-> (sel[idx - 1] :> << 10, 1 >>)],
                        [Fecha |-> 2, vals |-> (sel[idx - 1] :> << 15, 1 >>)] >>

Cells(f) ==
    { << f.rows[i].Fecha, c, f.rows[i].vals[c] >> : i \in DOMAIN f.rows, c \in SeqRange(f.cols) }

\* the cells of the full outer join of the station series fs: on every date of
\* the union each station's own values of that date, or NaN when it has none
JoinCells(fs) ==
    LET dates == UNION { KeysOf(fs[k]) : k \in DOMAIN fs }
    IN  UNION { LET c == fs[k].cols[1]
                IN  { << d, c, NaN >> : d \in dates \ KeysOf(fs[k]) }
                    \cup { << fs[k].rows[i].Fecha, c, fs[k].rows[i].vals[c] >> :
                           i \in DOMAIN fs[k].rows } : k \in DOMAIN fs }

Orders(fs) ==
    { q \in [DOMAIN fs -> DOMAIN fs] : \A i, j \in DOMAIN fs : i # j => q[i] # q[j] }

StrictlyIncreasing(ix) == \A i, j \in DOMAIN ix : i < j => ix[i] < ix[j]

\* C6: the frame fetch_days returns and the final frame of main hold at most one
\* row per date, in date order, also when the upstream repeats a timestamp.
C6_UniqueAndSorted ==
    /\ StrictlyIncreasing([i \in DOMAIN dfd |-> dfd[i].Fecha])
    /\ \A k \in DOMAIN series_loc : StrictlyIncreasing(Index(series_loc[k]))
    /\ StrictlyIncreasing(Index(df_final))

\* C7: a response that holds a well-formed record beside a record without its
\* timestamp or value (fetch_days) or without its id (list_locations) raises no
\* error: the malformed record is dropped.
C7_MalformedDropped ==
    /\ exc.at = "fetch_days" => ~(\E i \in DOMAIN data : DayRecordOk(data[i]))
    /\ exc.at = "list_locations" => ~(\E i \in DOMAIN data : data[i].has_id)

\* C8: an empty result list is a valid payload: the run ends in a render or in a
\* message, and a station whose sensor listing is empty is skipped, never the
\* KeyError of the missing "parameter" column.
C8_EmptyIsValid ==
    /\ ~(exc.type = "KeyError" /\ exc.at = "main" /\ exc.cause = "parameter")
    /\ msg = "no_stations" => (pc = "stopped" /\ exc = NoExc)
    /\ msg = "no_data" => (pc = "stopped" /\ exc = NoExc)

\* the means of the values present in a row of the latest date of the frame
LatestValues(f) ==
    LET d  == CHOOSE x \in KeysOf(f) : \A y \in KeysOf(f) : y <= x
        rs == RowsAt(f, d)
    IN  { SkipNaMean([k \in DOMAIN f.cols |-> rs[i].vals[f.cols[k]]]) : i \in DOMAIN rs }

\* C9: the "last day" KPI never raises, and is taken from the values the stations
\* have on the maximum date of the merged frame.
C9_LatestValue ==
    /\ exc.type # "IndexError"
    /\ pc = "done" => kpi.ultimo \in LatestValues(df_final)

\* the dated points of station column c, gaps left out
StationPoints(f, c) ==
    SelectSeq([i \in DOMAIN f.rows |-> f.rows[i].vals[c]], LAMBDA q : ~IsNaN(q))
LastN(pts, n) == SubSeq(pts, IF Len(pts) > n THEN Len(pts) - n + 1 ELSE 1, Len(pts))
WindowAverage(f, n) ==
    SkipNaMean([k \in DOMAIN f.cols |-> SkipNaMean(LastN(StationPoints(f, f.cols[k]), n))])

\* C10: the 7-day and 30-day KPIs are the mean, per station, of the station's
\* last N dated points, a date missing at another station notwithstanding.
C10_WindowAverage ==
    pc = "done" =>
        /\ kpi.prom_7 = WindowAverage(df_final, Window7)
        /\ kpi.prom_30 = WindowAverage(df_final, Window30)

====
